---------------------------- MODULE Spec2Model ----------------------------
(***************************************************************************)
(* A state-machine model of benford_analysis.py: the spreadsheet extractor *)
(* (_column_headers, _cell_value, _read_amounts), the Benford analyzer     *)
(* (_first_digit, analyze_first_digits) and the pipeline of main with its  *)
(* three artifact writes.                                                  *)
(*                                                                         *)
(* Numbers.  A float is modelled by its exact decimal value: a sign, the   *)
(* sequence of its significant decimal digits (first digit non-zero) and   *)
(* the decimal exponent of the first digit, so that                        *)
(*     value = (-1)^neg * d1.d2d3... * 10^exp.                             *)
(* Zero, inf and nan are separate kinds.  Derived statistics (fractions,   *)
(* mad, chi-square) are kept in fixed point, in thousandths.               *)
(*                                                                         *)
(* Text.  Cell texts and header texts are TLA+ strings; the text produced  *)
(* by the format call of _first_digit is a sequence of one-character       *)
(* strings, because the code strips and scans it character by character.   *)
(***************************************************************************)
EXTENDS Integers, Sequences, FiniteSets, TLC

VARIABLES
    entry,              \* the function the run entered: "main", "analyze_first_digits" or "_first_digit"
    pc,                 \* position of the run
    err,                \* the exception that ended the run, or NoErr
    container,          \* whether the xlsx container can be opened and parsed
    strings,            \* the shared-string table (_load_shared_strings)
    sheet,              \* the rows of sheetData, in document order
    headers,            \* _column_headers' result: the dict as a sequence of [col, header], in insertion order
    column_for_abs,     \* _read_amounts' local
    column_for_amount,  \* _read_amounts' local
    rowIdx,             \* position in sheet of the next row of the loop of line 127
    values,             \* _read_amounts' values / analyze_first_digits' argument
    idx,                \* number of values the loop of line 85 has processed
    counts,             \* analyze_first_digits' counts
    total,              \* analyze_first_digits' total
    result,             \* the BenfordResult, or NoResult
    written,            \* the artifacts written so far
    value,              \* argument of a direct _first_digit call
    digit,              \* its result
    shift,              \* the power of ten of the scaled call
    scaledDigit         \* _first_digit(value * 10^shift)

extVars == <<container, strings, sheet, headers, column_for_abs, column_for_amount, rowIdx>>
anaVars == <<idx, counts, total, result>>
digVars == <<value, digit, shift, scaledDigit>>
vars == <<entry, pc, err, extVars, values, anaVars, written, digVars>>

-----------------------------------------------------------------------------
(* Bounds of the model. *)

\* longest run of equal digits after the first digit of a _first_digit input
MaxFill == 12
\* decimal exponents of the _first_digit inputs range over -MaxExp .. MaxExp
MaxExp == 13
\* largest |k| of the scaling v * 10^k
MaxShift == 2
\* longest input sequence of a direct analyze_first_digits call
MaxLen == 3
\* most data rows of a worksheet of the pipeline
MaxRows == 2
\* most data rows of a worksheet of the AbsoluteAmount scenario
MaxScenarioRows == 4

-----------------------------------------------------------------------------
(* Values. *)

Num(neg, digs, exp) == [kind |-> "num", neg |-> neg, digs |-> digs, exp |-> exp]
Zero == [kind |-> "zero", neg |-> FALSE, digs |-> <<>>, exp |-> 0]
Inf == [kind |-> "inf", neg |-> FALSE, digs |-> <<>>, exp |-> 0]
NaN == [kind |-> "nan", neg |-> FALSE, digs |-> <<>>, exp |-> 0]

\* abs(value), line 69
Abs(v) == [v EXCEPT !.neg = FALSE]

\* value * 10^k, exact in decimal
Scale(v, k) == IF v.kind = "num" THEN [v EXCEPT !.exp = v.exp + k] ELSE v

\* the result None of _first_digit
NoDigit == 0

\* the precision of the format specification .12g
Precision == 12

DigitChars == <<"0", "1", "2", "3", "4", "5", "6", "7", "8", "9">>

Chr(d) == DigitChars[d + 1]

\* str.isdigit on one character
IsDigit(c) == \E d \in 0..9 : DigitChars[d + 1] = c

\* int(char) for a digit character
IntOfChar(c) == CHOOSE d \in 0..9 : DigitChars[d + 1] = c

RECURSIVE Chars(_)
Chars(ds) == IF ds = <<>> THEN <<>> ELSE <<Chr(Head(ds))>> \o Chars(Tail(ds))

RECURSIVE Zeros(_)
Zeros(n) == IF n <= 0 THEN <<>> ELSE <<0>> \o Zeros(n - 1)

RECURSIVE StripTrailingZeros(_)
StripTrailingZeros(ds) ==
    IF Len(ds) > 1 /\ ds[Len(ds)] = 0
    THEN StripTrailingZeros(SubSeq(ds, 1, Len(ds) - 1))
    ELSE ds

\* ds + 1 as a decimal numeral of the same length; carry when ds is all nines
RECURSIVE Increment(_)
Increment(ds) ==
    IF ds = <<>> THEN [digs |-> <<>>, carry |-> TRUE]
    ELSE LET n == Len(ds)
             last == ds[n]
         IN IF last < 9
            THEN [digs |-> [ds EXCEPT ![n] = last + 1], carry |-> FALSE]
            ELSE LET r == Increment(SubSeq(ds, 1, n - 1))
                 IN [digs |-> r.digs \o <<0>>, carry |-> r.carry]

\* correct rounding (ties to even) of the digits ds to p significant digits;
\* bump is 1 when the rounding carries into a new leading digit
RoundSig(ds, p) ==
    IF Len(ds) <= p THEN [digs |-> ds, bump |-> 0]
    ELSE LET head == SubSeq(ds, 1, p)
             next == ds[p + 1]
             sticky == \E i \in (p + 2)..Len(ds) : ds[i] # 0
             up == next > 5 \/ (next = 5 /\ (sticky \/ head[p] % 2 = 1))
         IN IF ~up THEN [digs |-> head, bump |-> 0]
            ELSE LET inc == Increment(head)
                 IN IF inc.carry
                    THEN [digs |-> <<1>> \o Zeros(p - 1), bump |-> 1]
                    ELSE [digs |-> inc.digs, bump |-> 0]

\* the exponent field of the scientific style: a sign and at least two digits
ExpChars(x) ==
    LET a == IF x < 0 THEN -x ELSE x
    IN <<"e", IF x < 0 THEN "-" ELSE "+">> \o
       (IF a < 10 THEN <<"0", Chr(a)>>
        ELSE IF a < 100 THEN <<Chr(a \div 10), Chr(a % 10)>>
        ELSE <<Chr(a \div 100), Chr((a \div 10) % 10), Chr(a % 10)>>)

\* scientific style: d.ddde+XX
SciText(m, x) ==
    <<Chr(m[1])>> \o (IF Len(m) > 1 THEN <<".">> \o Chars(Tail(m)) ELSE <<>>) \o ExpChars(x)

\* fixed style, trailing zeros of the fraction removed
FixedText(m, x) ==
    IF x < 0 THEN <<"0", ".">> \o Chars(Zeros(-x - 1) \o m)
    ELSE LET padded == m \o Zeros(x + 1 - Len(m))
             int == SubSeq(padded, 1, x + 1)
             frac == SubSeq(padded, x + 2, Len(padded))
         IN Chars(int) \o (IF frac = <<>> THEN <<>> ELSE <<".">> \o Chars(frac))

\* f"{value:.12g}" for a non-negative value, line 70
FormatG(v) ==
    IF v.kind = "inf" THEN <<"i", "n", "f">>
    ELSE IF v.kind = "nan" THEN <<"n", "a", "n">>
    ELSE IF v.kind = "zero" THEN <<"0">>
    ELSE LET r == RoundSig(v.digs, Precision)
             x == v.exp + r.bump
             m == StripTrailingZeros(r.digs)
         IN IF x < -4 \/ x >= Precision THEN SciText(m, x) ELSE FixedText(m, x)

\* str.lstrip(c) for a single character c
RECURSIVE LStrip(_, _)
LStrip(text, c) ==
    IF text # <<>> /\ Head(text) = c THEN LStrip(Tail(text), c) ELSE text

\* the loop of lines 72-75
RECURSIVE ScanDigit(_)
ScanDigit(text) ==
    IF text = <<>> THEN NoDigit
    ELSE IF IsDigit(Head(text)) /\ Head(text) # "0" THEN IntOfChar(Head(text))
    ELSE ScanDigit(Tail(text))

\* _first_digit returning the first character left by the strips of line 71,
\* without the scan for a digit other than "0"
_first_digit_unscanned(v) ==
    IF v.kind = "zero" THEN NoDigit
    ELSE LET text == LStrip(LStrip(FormatG(Abs(v)), "0"), ".")
         IN IF text # <<>> /\ IsDigit(Head(text)) THEN IntOfChar(Head(text)) ELSE NoDigit

_first_digit(v) ==
    IF v.kind = "zero" THEN NoDigit
    ELSE ScanDigit(LStrip(LStrip(FormatG(Abs(v)), "0"), "."))

-----------------------------------------------------------------------------
(* The analyzer. *)

Digits == 1..9

\* _benford_expected, in thousandths: round(1000 * log10(1 + 1/d))
ExpectedPct == <<301, 176, 125, 97, 79, 67, 58, 51, 46>>

NoResult == [counts |-> <<>>, total |-> -1, observed_pct |-> <<>>, expected_pct |-> <<>>,
             mad |-> -1, chi_square |-> -1]

\* line 83 and line 84
EmptyCounts == [d \in Digits |-> 0]

\* one iteration of the loop of lines 85-90, with total = counts[digit] for line 90
CountValueLastDigit(st, v) ==
    LET d == _first_digit(v)
    IN IF d = NoDigit THEN st
       ELSE [st EXCEPT !.counts[d] = @ + 1, !.total = st.counts[d] + 1]

\* one iteration of the loop of lines 85-90, counting a value with no digit in total
CountValueNoSkip(st, v) ==
    LET d == _first_digit(v)
    IN IF d = NoDigit THEN [st EXCEPT !.total = @ + 1]
       ELSE [st EXCEPT !.counts[d] = @ + 1, !.total = @ + 1]

\* one iteration of the loop of lines 85-90
CountValue(st, v) ==
    LET d == _first_digit(v)
    IN IF d = NoDigit THEN st
       ELSE [st EXCEPT !.counts[d] = @ + 1, !.total = @ + 1]

AbsInt(n) == IF n < 0 THEN -n ELSE n

RECURSIVE SumOver(_, _)
SumOver(f, S) ==
    IF S = {} THEN 0
    ELSE LET d == CHOOSE d \in S : TRUE IN f[d] + SumOver(f, S \ {d})

\* the condition of line 93 with the guard lost: the division is always made
ObservedDividesAlways(t) == TRUE

\* the condition of line 93: the division counts[digit] / total is made
ObservedDivides(t) == t # 0

\* the condition of line 99: the term of digit d is summed
ChiDivides(t, d) == t * ExpectedPct[d] > 0

\* a division of lines 93-99 is made with a zero divisor
DividesByZero(t) ==
    \/ ObservedDivides(t) /\ t = 0
    \/ \E d \in Digits : ChiDivides(t, d) /\ t * ExpectedPct[d] = 0

\* lines 91-108, in thousandths
MakeResult(c, t) ==
    LET observed == [d \in Digits |-> IF ObservedDivides(t) THEN (c[d] * 1000) \div t ELSE 0]
        dev == [d \in Digits |-> AbsInt(observed[d] - ExpectedPct[d])]
        term == [d \in Digits |->
                    IF ChiDivides(t, d)
                    THEN ((c[d] * 1000 - t * ExpectedPct[d]) * (c[d] * 1000 - t * ExpectedPct[d]))
                            \div (t * ExpectedPct[d])
                    ELSE 0]
    IN [counts |-> c, total |-> t, observed_pct |-> observed,
        expected_pct |-> [d \in Digits |-> ExpectedPct[d]],
        mad |-> SumOver(dev, Digits) \div 9,
        chi_square |-> SumOver(term, Digits)]

\* the loop of lines 85-90 over a whole sequence
RECURSIVE CountAll(_, _)
CountAll(st, vs) ==
    IF vs = <<>> THEN st ELSE CountAll(CountValue(st, Head(vs)), Tail(vs))

\* analyze_first_digits as a function of its argument
Analyze(vs) ==
    LET st == CountAll([counts |-> EmptyCounts, total |-> 0], vs)
    IN MakeResult(st.counts, st.total)

\* one iteration of the loop of lines 85-90
AnalyzeStep ==
    /\ pc = "analyze"
    /\ idx < Len(values)
    /\ LET st == CountValue([counts |-> counts, total |-> total], values[idx + 1])
       IN /\ counts' = st.counts
          /\ total' = st.total
    /\ idx' = idx + 1
    /\ UNCHANGED <<entry, pc, err, extVars, values, result, written, digVars>>

\* lines 91-108: the statistics and the return
AnalyzeFinish ==
    /\ pc = "analyze"
    /\ idx = Len(values)
    /\ IF DividesByZero(total)
       THEN /\ pc' = "failed"
            /\ err' = [type |-> "ZeroDivisionError", where |-> "analyze_first_digits"]
            /\ result' = result
       ELSE /\ pc' = "analyzed"
            /\ err' = err
            /\ result' = MakeResult(counts, total)
    /\ UNCHANGED <<entry, extVars, values, idx, counts, total, written, digVars>>

-----------------------------------------------------------------------------
(* The extractor. *)

\* Python's None, where a text or a column identifier is expected
PyNone == "<None>"

\* a cell without a value node
NoV == "<no v>"

\* the result of dict.get and of find for a missing cell
NoCell == [r |-> <<"", 0>>, t |-> "", v |-> NoV]

\* amount = None, line 129
NoAmount == [kind |-> "none", neg |-> FALSE, digs |-> <<>>, exp |-> 0]

NoErr == [type |-> "none", where |-> "none"]

Raised(type, where) == [type |-> type, where |-> where]

\* int(text), line 51 and line 62
ParseInt(text) ==
    CASE text = "-1" -> [err |-> "none", val |-> -1]
      [] text = "0" -> [err |-> "none", val |-> 0]
      [] text = "1" -> [err |-> "none", val |-> 1]
      [] text = "2" -> [err |-> "none", val |-> 2]
      [] text = "3" -> [err |-> "none", val |-> 3]
      [] text = "4" -> [err |-> "none", val |-> 4]
      [] text = "7" -> [err |-> "none", val |-> 7]
      [] text = "10" -> [err |-> "none", val |-> 10]
      [] text = "30" -> [err |-> "none", val |-> 30]
      [] text = "-20" -> [err |-> "none", val |-> -20]
      [] text = PyNone -> [err |-> "TypeError", val |-> 0]
      [] OTHER -> [err |-> "ValueError: invalid literal for int()", val |-> 0]

\* float(text), line 135 and line 141
ParseFloat(text) ==
    CASE text = "10" -> [err |-> "none", val |-> Num(FALSE, <<1>>, 1)]
      [] text = "-20" -> [err |-> "none", val |-> Num(TRUE, <<2>>, 1)]
      [] text = "30" -> [err |-> "none", val |-> Num(FALSE, <<3>>, 1)]
      [] text = "0" -> [err |-> "none", val |-> Zero]
      [] text = "0.0" -> [err |-> "none", val |-> Zero]
      [] text = "-1" -> [err |-> "none", val |-> Num(TRUE, <<1>>, 0)]
      [] text = "1" -> [err |-> "none", val |-> Num(FALSE, <<1>>, 0)]
      [] text = "2" -> [err |-> "none", val |-> Num(FALSE, <<2>>, 0)]
      [] text = "3" -> [err |-> "none", val |-> Num(FALSE, <<3>>, 0)]
      [] text = "4" -> [err |-> "none", val |-> Num(FALSE, <<4>>, 0)]
      [] text = "7" -> [err |-> "none", val |-> Num(FALSE, <<7>>, 0)]
      [] text = "nan" -> [err |-> "none", val |-> NaN]
      [] text = PyNone -> [err |-> "TypeError", val |-> NoAmount]
      [] OTHER -> [err |-> "ValueError: could not convert string to float", val |-> NoAmount]

\* strings[i] with Python's list indexing: a negative index counts from the end
ListIndex(strs, i) ==
    IF i >= 0 /\ i < Len(strs) THEN [err |-> "none", text |-> strs[i + 1]]
    ELSE IF i < 0 /\ -i <= Len(strs) THEN [err |-> "none", text |-> strs[Len(strs) + i + 1]]
    ELSE [err |-> "IndexError", text |-> PyNone]

\* strings[int(value_node.text)], line 51 and line 62
SharedString(cell, strs) ==
    LET i == ParseInt(cell.v)
    IN IF i.err # "none" THEN [err |-> i.err, text |-> PyNone] ELSE ListIndex(strs, i.val)

_cell_value(cell, strs) ==
    IF cell.v = NoV THEN [err |-> "none", text |-> PyNone]
    ELSE IF cell.t = "s" THEN SharedString(cell, strs)
    ELSE [err |-> "none", text |-> cell.v]

\* headers[col] = header: a new key is appended, an old key keeps its place
RECURSIVE DictPut(_, _, _)
DictPut(d, col, header) ==
    IF d = <<>> THEN <<[col |-> col, header |-> header]>>
    ELSE IF Head(d).col = col THEN <<[col |-> col, header |-> header]>> \o Tail(d)
    ELSE <<Head(d)>> \o DictPut(Tail(d), col, header)

\* the loop of lines 44-53 from cell i on
RECURSIVE HeaderCells(_, _, _, _)
HeaderCells(cells, strs, i, acc) ==
    IF i > Len(cells) THEN [err |-> "none", headers |-> acc]
    ELSE LET cell == cells[i]
             col == cell.r[1]
         IN IF cell.v = NoV THEN HeaderCells(cells, strs, i + 1, acc)
            ELSE IF cell.t = "s"
            THEN LET sh == SharedString(cell, strs)
                 IN IF sh.err # "none" THEN [err |-> sh.err, headers |-> acc]
                    ELSE HeaderCells(cells, strs, i + 1, DictPut(acc, col, sh.text))
            ELSE HeaderCells(cells, strs, i + 1,
                             DictPut(acc, col, IF cell.v = PyNone THEN "" ELSE cell.v))

_column_headers(rows, strs) ==
    IF rows = <<>> THEN [err |-> "none", headers |-> <<>>]
    ELSE HeaderCells(rows[1].cells, strs, 1, <<>>)

\* the loop of lines 118-122 from entry i on
RECURSIVE ColumnsFor(_, _, _, _)
ColumnsFor(hs, i, abs, amount) ==
    IF i > Len(hs) THEN [abs |-> abs, amount |-> amount]
    ELSE IF hs[i].header = "AbsoluteAmount" THEN ColumnsFor(hs, i + 1, hs[i].col, amount)
    ELSE IF hs[i].header = "Amount" THEN ColumnsFor(hs, i + 1, abs, hs[i].col)
    ELSE ColumnsFor(hs, i + 1, abs, amount)

\* the condition of line 123 with or for and
NoColumnFoundEither(abs, amount) == abs = PyNone \/ amount = PyNone

\* the condition of line 123
NoColumnFound(abs, amount) == abs = PyNone /\ amount = PyNone

\* the truth value of a column identifier, line 130 and line 136
Truthy(col) == col # PyNone /\ col # ""

\* cells.get(f"{col}{row.attrib.get('r')}"): the dict of line 128 keeps the last cell of a reference
CellsGet(row, col) ==
    LET hits == {i \in 1..Len(row.cells) : row.cells[i].r = <<col, row.r>>}
    IN IF hits = {} THEN NoCell
       ELSE row.cells[CHOOSE i \in hits : \A j \in hits : j <= i]

\* lines 131-135 and lines 137-141: the amount of the row's cell in column col
CellAmount(row, strs, col) ==
    LET cell == CellsGet(row, col)
    IN IF cell = NoCell THEN [err |-> NoErr, amount |-> NoAmount]
       ELSE LET raw == _cell_value(cell, strs)
            IN IF raw.err # "none" THEN [err |-> Raised(raw.err, "_cell_value"), amount |-> NoAmount]
               ELSE IF raw.text \in {PyNone, ""} THEN [err |-> NoErr, amount |-> NoAmount]
               ELSE LET f == ParseFloat(raw.text)
                    IN IF f.err # "none" THEN [err |-> Raised(f.err, "float"), amount |-> NoAmount]
                       ELSE [err |-> NoErr, amount |-> f.val]

\* lines 129-141 without the second lookup when an AbsoluteAmount column exists
RowAmountNoFallback(row, strs, abs, amount) ==
    IF Truthy(abs) THEN CellAmount(row, strs, abs)
    ELSE IF Truthy(amount) THEN CellAmount(row, strs, amount)
    ELSE [err |-> NoErr, amount |-> NoAmount]

\* lines 129-141 with a text that float rejects treated like an empty cell
RowAmountSkipUnparsable(row, strs, abs, amount) ==
    LET lenient(c) == LET a == CellAmount(row, strs, c)
                      IN IF a.err.where = "float" THEN [err |-> NoErr, amount |-> NoAmount] ELSE a
        first == IF Truthy(abs) THEN lenient(abs) ELSE [err |-> NoErr, amount |-> NoAmount]
    IN IF first.err # NoErr THEN first
       ELSE IF first.amount = NoAmount /\ Truthy(amount) THEN lenient(amount)
       ELSE first

\* lines 129-141: the amount of a row, or NoAmount, or the exception raised
RowAmount(row, strs, abs, amount) ==
    LET first == IF Truthy(abs) THEN CellAmount(row, strs, abs)
                 ELSE [err |-> NoErr, amount |-> NoAmount]
    IN IF first.err # NoErr THEN first
       ELSE IF first.amount = NoAmount /\ Truthy(amount) THEN CellAmount(row, strs, amount)
       ELSE first

\* lines 142-145 without the test of line 144
KeepsAmountWithZero(a) == a # NoAmount

\* lines 142-145: the amount is appended
KeepsAmount(a) == a # NoAmount /\ a.kind # "zero"

\* the index in sheet of the first row of the slice [1:], line 127
FirstDataRow == 2

Artifacts == {"report", "bar_chart", "deviation_chart"}

\* lines 112-114: the container is opened, the shared strings and the sheet are
\* parsed; FormatError stands for the exceptions of zipfile and ElementTree
OpenContainer ==
    /\ pc = "open"
    /\ IF container = "ok"
       THEN /\ pc' = "headers"
            /\ err' = err
       ELSE /\ pc' = "failed"
            /\ err' = Raised("FormatError", "_read_amounts")
    /\ UNCHANGED <<entry, extVars, values, anaVars, written, digVars>>

\* line 115
ColumnHeaders ==
    /\ pc = "headers"
    /\ LET h == _column_headers(sheet, strings)
       IN IF h.err # "none"
          THEN /\ pc' = "failed"
               /\ err' = Raised(h.err, "_column_headers")
               /\ headers' = headers
          ELSE /\ pc' = "columns"
               /\ err' = err
               /\ headers' = h.headers
    /\ UNCHANGED <<entry, container, strings, sheet, column_for_abs, column_for_amount, rowIdx,
                   values, anaVars, written, digVars>>

\* lines 116-126
FindColumns ==
    /\ pc = "columns"
    /\ LET c == ColumnsFor(headers, 1, PyNone, PyNone)
       IN /\ column_for_abs' = c.abs
          /\ column_for_amount' = c.amount
          /\ IF NoColumnFound(c.abs, c.amount)
             THEN /\ pc' = "failed"
                  /\ err' = Raised("ValueError: No amount column found in spreadsheet", "_read_amounts")
                  /\ rowIdx' = rowIdx
             ELSE /\ pc' = "rows"
                  /\ err' = err
                  /\ rowIdx' = FirstDataRow
    /\ UNCHANGED <<entry, container, strings, sheet, headers, values, anaVars, written, digVars>>

\* one iteration of the loop of lines 127-146
ReadRow ==
    /\ pc = "rows"
    /\ rowIdx <= Len(sheet)
    /\ LET a == RowAmount(sheet[rowIdx], strings, column_for_abs, column_for_amount)
       IN IF a.err # NoErr
          THEN /\ pc' = "failed"
               /\ err' = a.err
               /\ UNCHANGED <<rowIdx, values>>
          ELSE /\ values' = IF KeepsAmount(a.amount) THEN Append(values, a.amount) ELSE values
               /\ rowIdx' = rowIdx + 1
               /\ UNCHANGED <<pc, err>>
    /\ UNCHANGED <<entry, container, strings, sheet, headers, column_for_abs, column_for_amount,
                   anaVars, written, digVars>>

\* line 147, and line 318 up to the loop of analyze_first_digits
ReturnAmounts ==
    /\ pc = "rows"
    /\ rowIdx > Len(sheet)
    /\ pc' = "analyze"
    /\ UNCHANGED <<entry, err, extVars, values, anaVars, written, digVars>>

MaxOf(f, S) == CHOOSE m \in {f[d] : d \in S} : \A d \in S : f[d] <= m

\* y_max of _svg_bar_chart, line 329, in thousandths of a percent
BarYMax(res) ==
    LET o == MaxOf(res.observed_pct, Digits)
        e == MaxOf(res.expected_pct, Digits)
    IN ((IF o > e THEN o ELSE e) * 100 * 12) \div 10

\* y_max of _svg_deviation_chart, lines 230-231, in thousandths of a percent
DeviationYMax(res) ==
    LET dev == [d \in Digits |-> AbsInt(res.observed_pct[d] * 100 - res.expected_pct[d] * 100)]
        max_dev == MaxOf(dev, Digits)
    IN IF max_dev # 0 THEN (max_dev * 12) \div 10 ELSE 50

\* an artifact is rendered and written with one write_text: the rendering divides by
\* divisor; the write succeeds, or raises OSError and leaves no artifact
WriteArtifact(at, name, next, divisor) ==
    /\ entry = "main"
    /\ pc = at
    /\ IF divisor = 0
       THEN /\ written' = written
            /\ pc' = "failed"
            /\ err' = Raised("ZeroDivisionError", name)
       ELSE \E ok \in BOOLEAN :
              IF ok
              THEN /\ written' = written \cup {name}
                   /\ pc' = next
                   /\ err' = err
              ELSE /\ written' = written
                   /\ pc' = "failed"
                   /\ err' = Raised("OSError", name)
    /\ UNCHANGED <<entry, extVars, values, anaVars, digVars>>

\* line 320: _write_report, lines 277-312
WriteReport == WriteArtifact("analyzed", "report", "bar_chart", 1)

\* lines 322-330: _svg_bar_chart, lines 150-220
SvgBarChart == WriteArtifact("bar_chart", "bar_chart", "deviation_chart", BarYMax(result))

\* lines 332-337: _svg_deviation_chart, lines 223-274
SvgDeviationChart ==
    WriteArtifact("deviation_chart", "deviation_chart", "done", DeviationYMax(result))

Next ==
    \/ OpenContainer
    \/ ColumnHeaders
    \/ FindColumns
    \/ ReadRow
    \/ ReturnAmounts
    \/ AnalyzeStep
    \/ AnalyzeFinish
    \/ WriteReport
    \/ SvgBarChart
    \/ SvgDeviationChart

-----------------------------------------------------------------------------
(* The worksheets of the runs of main. *)

\* the sequences over S of length at most n
RECURSIVE SeqsUpTo(_, _)
SeqsUpTo(S, n) ==
    IF n <= 0 THEN {<<>>}
    ELSE LET shorter == SeqsUpTo(S, n - 1)
         IN shorter \cup {Append(q, x) : q \in {r \in shorter : Len(r) = n - 1}, x \in S}

\* a cell of a row still to be numbered: column letters, type and value text
Lit(col, v) == [col |-> col, t |-> "n", v |-> v]
Shared(col, v) == [col |-> col, t |-> "s", v |-> v]

\* the row of number n with the cells of shape, each referenced by its column and
\* n, as in the standard layout: r="C2" is <<"C", 2>>, and the column identifier
\* of line 46 is its first component
MkRow(n, shape) ==
    [r |-> n, cells |-> [i \in 1..Len(shape) |->
                            [r |-> <<shape[i].col, n>>, t |-> shape[i].t, v |-> shape[i].v]]]

MkSheet(shapes) == [n \in 1..Len(shapes) |-> MkRow(n, shapes[n])]

\* the shared strings of the workbooks: indices 0..4
Strings1 == <<"AbsoluteAmount", "Amount", "", "abc", "30">>

\* header rows with which the rows are read
PolicyHeaders ==
    {<<Lit("B", "Amount"), Lit("C", "AbsoluteAmount")>>,
     <<Lit("B", "AbsoluteAmount"), Lit("C", "Amount")>>,
     <<Lit("B", "Date"), Lit("C", "AbsoluteAmount")>>,
     <<Lit("B", "Amount")>>,
     <<Shared("B", "1"), Shared("C", "0")>>,
     <<Lit("B", "Amount"), Lit("C", "Amount")>>}

\* header rows of every other shape: no target header, a header that is a shared
\* string of a bad index, a cell without a value node or without text, a column
\* identifier given twice, a row without cells
SchemaHeaders ==
    {<<Lit("B", "Date"), Lit("C", "Total")>>,
     <<>>,
     <<Shared("B", "-1")>>,
     <<Shared("B", "7"), Lit("C", "Amount")>>,
     <<Shared("C", "-1"), Lit("B", "Amount")>>,
     <<Lit("B", NoV), Lit("C", "Amount")>>,
     <<Lit("B", "Amount"), Lit("B", "Date")>>,
     <<Lit("B", "Date"), Lit("B", "AbsoluteAmount")>>,
     <<Shared("B", PyNone)>>,
     <<Shared("B", "abc"), Lit("C", "AbsoluteAmount")>>,
     <<Lit("B", PyNone), Shared("C", "1")>>,
     <<Lit("B", "10"), Lit("C", "-20")>>}

\* data rows
PolicyRows ==
    {<<Lit("C", "10")>>,
     <<Lit("B", "-20")>>,
     <<Lit("B", "30"), Lit("C", "0")>>,
     <<Lit("B", "10"), Shared("C", "2")>>,
     <<Lit("B", "-20"), Lit("C", NoV)>>,
     <<Lit("B", "10"), Lit("C", "abc")>>,
     <<Lit("B", "abc")>>,
     <<>>,
     <<Lit("B", "0.0")>>,
     <<Shared("B", "4"), Lit("C", PyNone)>>,
     <<Shared("C", "-1")>>,
     <<Lit("B", "nan")>>,
     <<Lit("B", "10"), Shared("C", "7")>>,
     <<Lit("C", "10"), Lit("C", "-20")>>}

SchemaRows == {<<Lit("B", "10"), Lit("C", "-20")>>, <<Lit("B", "abc")>>}

Sheets(headerShapes, rowShapes, n) ==
    {MkSheet(<<h>> \o ds) : h \in headerShapes, ds \in SeqsUpTo(rowShapes, n)}

\* the state of main before line 317, for every worksheet of sheets
InitMain(tables, sheets) ==
    /\ entry = "main"
    /\ pc = "open"
    /\ err = NoErr
    /\ \/ /\ container = "ok"
          /\ strings \in tables
          /\ sheet \in sheets
       \/ /\ container = "unreadable"
          /\ strings = <<>>
          /\ sheet = <<>>
    /\ headers = <<>>
    /\ column_for_abs = PyNone
    /\ column_for_amount = PyNone
    /\ rowIdx = 0
    /\ values = <<>>
    /\ idx = 0
    /\ counts = EmptyCounts
    /\ total = 0
    /\ result = NoResult
    /\ written = {}
    /\ value = Zero
    /\ digit = NoDigit
    /\ shift = 0
    /\ scaledDigit = NoDigit

Init ==
    InitMain({Strings1, <<>>},
             {<<>>} \cup Sheets(PolicyHeaders, PolicyRows, MaxRows)
                    \cup Sheets(SchemaHeaders, SchemaRows, MaxRows))

Spec == Init /\ [][Next]_vars

\* the column C of the scenario: 10, -20, 0 and 30
ScenarioRows == {<<Lit("C", "10")>>, <<Lit("C", "-20")>>, <<Lit("C", "0")>>, <<Lit("C", "30")>>}

ScenarioHeaders ==
    {<<Lit("A", "Date"), Lit("B", "Amount"), Lit("C", "AbsoluteAmount")>>,
     <<Lit("C", "AbsoluteAmount")>>,
     <<Shared("C", "0")>>}

InitScenario == InitMain({Strings1}, Sheets(ScenarioHeaders, ScenarioRows, MaxScenarioRows))

SpecScenario == InitScenario /\ [][Next]_vars

-----------------------------------------------------------------------------
(* The claims about the extractor and the pipeline. *)

\* _read_amounts has returned its values to main
Returned == entry = "main" /\ pc \in {"analyze", "analyzed", "bar_chart", "deviation_chart", "done"}

\* the column of the Header Map headed name (the last one, when several are), or PyNone
HeadedColumn(name) ==
    LET hits == {i \in 1..Len(headers) : headers[i].header = name}
    IN IF hits = {} THEN PyNone ELSE headers[CHOOSE i \in hits : \A j \in hits : j <= i].col

\* the row's cell in column col: the cell referenced by col and the row's number
RowCell(row, col) ==
    LET hits == {i \in 1..Len(row.cells) : row.cells[i].r[1] = col /\ row.cells[i].r[2] = row.r}
    IN IF col = PyNone \/ hits = {} THEN NoCell
       ELSE row.cells[CHOOSE i \in hits : \A j \in hits : j <= i]

\* the cell is present and its text resolves to a non-empty text
HasText(cell) ==
    /\ cell # NoCell
    /\ _cell_value(cell, strings).err = "none"
    /\ _cell_value(cell, strings).text \notin {PyNone, ""}

\* the cell is present and its text does not resolve
Unresolved(cell) == cell # NoCell /\ _cell_value(cell, strings).err # "none"

\* the cell the selection policy chooses in a row: the AbsoluteAmount cell when it
\* has text, otherwise the Amount cell when it has text, otherwise none
ChosenCell(row) ==
    LET a == RowCell(row, HeadedColumn("AbsoluteAmount"))
        b == RowCell(row, HeadedColumn("Amount"))
    IN IF HasText(a) THEN a
       ELSE IF Unresolved(a) THEN NoCell
       ELSE IF HasText(b) THEN b
       ELSE NoCell

\* the texts that are numbers, and the number each is
NumberTexts == {"10", "-20", "30", "0", "0.0", "nan"}

NumberOf(text) ==
    CASE text = "10" -> Num(FALSE, <<1>>, 1)
      [] text = "-20" -> Num(TRUE, <<2>>, 1)
      [] text = "30" -> Num(FALSE, <<3>>, 1)
      [] text = "nan" -> NaN
      [] OTHER -> Zero

\* what a row contributes: the number of its chosen cell unless that is zero
Contribution(row) ==
    LET c == ChosenCell(row)
    IN IF c = NoCell THEN <<>>
       ELSE LET n == NumberOf(_cell_value(c, strings).text)
            IN IF n = Zero THEN <<>> ELSE <<n>>

\* the contributions of the rows 2..k of the sheet, in row order
RECURSIVE Contributions(_)
Contributions(k) ==
    IF k < 2 THEN <<>> ELSE Contributions(k - 1) \o Contribution(sheet[k])

\* C1: while the rows are read the values collected are the contributions of the
\* rows read so far, and the returned sequence is the contributions of all rows
\* after the first, in row order: per row the AbsoluteAmount cell if it has text,
\* otherwise the Amount cell if it has text, nothing for zero; the first row never
\* contributes
C1_RowValuePolicy ==
    /\ pc = "rows" => values = Contributions(rowIdx - 1)
    /\ Returned => values = Contributions(Len(sheet))

\* with both columns present, a row whose AbsoluteAmount cell is zero contributed
\* nothing although its Amount cell holds 30, and a row whose AbsoluteAmount cell is
\* the empty string contributed the 10 of its Amount cell
C1_Witness ==
    /\ Returned
    /\ column_for_abs = "C"
    /\ column_for_amount = "B"
    /\ Len(sheet) = 3
    /\ sheet[2] = MkRow(2, <<Lit("B", "30"), Lit("C", "0")>>)
    /\ sheet[3] = MkRow(3, <<Lit("B", "10"), Shared("C", "2")>>)
    /\ values = <<Num(FALSE, <<1>>, 1)>>

\* the chosen cell of the row has a text that is no number
UnparsableRow(row) ==
    LET c == ChosenCell(row)
    IN c # NoCell /\ _cell_value(c, strings).text \notin NumberTexts

\* C5: no row whose chosen cell holds a text that is no number is ever passed (not
\* skipped, not counted as zero, not answered from the Amount cell): the rows read so
\* far, and all rows once the values are returned, have none; and the run that stops
\* at such a row has failed with float's ValueError, nothing returned or analyzed
C5_ValueError ==
    /\ pc = "rows" => \A k \in 2..(rowIdx - 1) : ~UnparsableRow(sheet[k])
    /\ Returned => \A k \in 2..Len(sheet) : ~UnparsableRow(sheet[k])
    /\ (rowIdx \in 2..Len(sheet) /\ UnparsableRow(sheet[rowIdx])) =>
          \/ pc = "rows"
          \/ /\ pc = "failed"
             /\ err = Raised("ValueError: could not convert string to float", "float")
             /\ idx = 0
             /\ result = NoResult
             /\ written = {}

\* after a row that contributed, a row with 10 in Amount and "abc" in AbsoluteAmount
\* has ended the run
C5_Witness ==
    /\ pc = "failed"
    /\ err.where = "float"
    /\ column_for_abs = "C"
    /\ column_for_amount = "B"
    /\ rowIdx = 3
    /\ values # <<>>
    /\ sheet[3] = MkRow(3, <<Lit("B", "10"), Lit("C", "abc")>>)

Targets == {"AbsoluteAmount", "Amount"}

\* the header text of a cell of the first row that has a value node
HeaderTextOf(cell) ==
    IF cell.t = "s" THEN SharedString(cell, strings).text
    ELSE IF cell.v = PyNone THEN "" ELSE cell.v

\* every header of the first row resolves
HeadersResolve ==
    sheet # <<>> =>
        \A i \in 1..Len(sheet[1].cells) :
            LET cell == sheet[1].cells[i]
            IN (cell.v # NoV /\ cell.t = "s") => SharedString(cell, strings).err = "none"

\* the first row has no cell whose header text is a target header
NoTargetCell ==
    sheet # <<>> =>
        \A i \in 1..Len(sheet[1].cells) :
            LET cell == sheet[1].cells[i]
            IN cell.v = NoV \/ HeaderTextOf(cell) \notin Targets

NoAmountColumnError ==
    Raised("ValueError: No amount column found in spreadsheet", "_read_amounts")

\* C4: when the headers of the first row resolve and no cell of it (or no row at
\* all) has the header text AbsoluteAmount or Amount, the run past line 123 has
\* failed with the "no amount column" error, with no data row read and no value
\* collected; and when the Header Map holds one of the two headers the error is
\* never raised
C4_SchemaError ==
    /\ (container = "ok" /\ pc \notin {"open", "headers", "columns"} /\ HeadersResolve /\ NoTargetCell) =>
          /\ pc = "failed"
          /\ err = NoAmountColumnError
          /\ rowIdx = 0
          /\ values = <<>>
          /\ idx = 0
          /\ written = {}
    /\ (\E i \in 1..Len(headers) : headers[i].header \in Targets) => err # NoAmountColumnError

\* a worksheet with data rows, whose first row has headers but neither target, has
\* failed with the error
C4_Witness ==
    /\ pc = "failed"
    /\ err = NoAmountColumnError
    /\ Len(sheet) = 3
    /\ Len(headers) = 2
    /\ rowIdx = 0

\* a shared-string cell with a value node whose index is not a position of the table
InvalidIndex(cell) ==
    /\ cell # NoCell
    /\ cell.v # NoV
    /\ cell.t = "s"
    /\ ParseInt(cell.v).err = "none"
    /\ (ParseInt(cell.v).val < 0 \/ ParseInt(cell.v).val >= Len(strings))

\* the first cell consulted in a row: the AbsoluteAmount cell, or the Amount cell
\* when there is no AbsoluteAmount column
FirstConsulted(row) ==
    IF Truthy(column_for_abs) THEN CellsGet(row, column_for_abs)
    ELSE IF Truthy(column_for_amount) THEN CellsGet(row, column_for_amount)
    ELSE NoCell

\* C9 as stated: a run that has resolved a shared-string cell of an invalid index
\* (index < 0 or index >= table length), in the header row or in a data row, has
\* failed; no header and no value comes from such a cell
C9_AsStated ==
    /\ (container = "ok" /\ pc \notin {"open", "headers"} /\ sheet # <<>>
            /\ \E i \in 1..Len(sheet[1].cells) : InvalidIndex(sheet[1].cells[i]))
          => pc = "failed" /\ err.where = "_column_headers"
    /\ \A k \in 2..Len(sheet) : k < rowIdx => ~InvalidIndex(FirstConsulted(sheet[k]))

\* C3 as stated: a run of main that has ended has written all three artifacts, or
\* has failed and written none
C3_AsStated ==
    (entry = "main" /\ pc \in {"done", "failed"}) =>
        \/ pc = "done" /\ written = Artifacts
        \/ pc = "failed" /\ written = {}

\* the worksheet of the scenario: AbsoluteAmount heads column C, and the data rows
\* hold 10, -20, 0 and 30 there
IsScenario ==
    /\ HeadedColumn("AbsoluteAmount") = "C"
    /\ Len(sheet) = 5
    /\ \A k \in 2..5 : Len(sheet[k].cells) = 1 /\ sheet[k].cells[1].r = <<"C", k>>
    /\ <<sheet[2].cells[1].v, sheet[3].cells[1].v, sheet[4].cells[1].v, sheet[5].cells[1].v>>
          = <<"10", "-20", "0", "30">>

\* C2 as stated: the scenario's amounts are 10, 20, 30, and every value extracted
\* from the AbsoluteAmount column is non-negative and non-zero
C2_AsStated ==
    Returned =>
        /\ IsScenario => values = <<Num(FALSE, <<1>>, 1), Num(FALSE, <<2>>, 1), Num(FALSE, <<3>>, 1)>>
        /\ \A i \in 1..Len(values) : values[i].kind = "num" /\ ~values[i].neg

\* C2 amended: the scenario's amounts are 10, -20, 30: the zero row is excluded and
\* the negative entry is delivered as it stands; every value extracted from the
\* AbsoluteAmount column is non-zero and is the number of its cell, sign included
C2_ScenarioAmounts ==
    /\ Returned /\ IsScenario =>
          values = <<Num(FALSE, <<1>>, 1), Num(TRUE, <<2>>, 1), Num(FALSE, <<3>>, 1)>>
    /\ (pc = "rows" \/ Returned) =>
          /\ \A i \in 1..Len(values) : values[i].kind = "num"
          /\ values = Contributions(IF pc = "rows" THEN rowIdx - 1 ELSE Len(sheet))

\* the scenario's worksheet has been read and its amounts returned
C2_Witness ==
    /\ Returned
    /\ IsScenario
    /\ Len(values) = 3
    /\ values[2].neg

-----------------------------------------------------------------------------
(* A direct call of _first_digit, and the call on the scaled value. *)

RECURSIVE Repeat(_, _)
Repeat(d, n) == IF n <= 0 THEN <<>> ELSE <<d>> \o Repeat(d, n - 1)

\* the digits lead, n times fill, and tail unless tail is 0
FillDigits(lead, fill, n, tail) ==
    <<lead>> \o Repeat(fill, n) \o (IF tail = 0 THEN <<>> ELSE <<tail>>)

DigitInputs ==
    {Zero, Inf, NaN} \cup
    {Num(neg, FillDigits(lead, fill, n, tail), e) :
        neg \in BOOLEAN, lead \in 1..9, fill \in {0, 9}, n \in {0, 1} \cup ((MaxFill - 2)..MaxFill),
        tail \in {0, 4, 5, 6}, e \in {-MaxExp, -5, -4, -1, 0, 1, 11, 12, MaxExp}}

InitDigit ==
    /\ entry = "_first_digit"
    /\ pc = "call"
    /\ err = NoErr
    /\ container = "none"
    /\ strings = <<>>
    /\ sheet = <<>>
    /\ headers = <<>>
    /\ column_for_abs = "None"
    /\ column_for_amount = "None"
    /\ rowIdx = 0
    /\ values = <<>>
    /\ idx = 0
    /\ counts = EmptyCounts
    /\ total = 0
    /\ result = NoResult
    /\ written = {}
    /\ value \in DigitInputs
    /\ digit = NoDigit
    /\ shift = 0
    /\ scaledDigit = NoDigit

\* digit = _first_digit(value)
FirstDigitCall ==
    /\ pc = "call"
    /\ digit' = _first_digit(value)
    /\ pc' = "returned"
    /\ UNCHANGED <<entry, err, extVars, values, anaVars, written, value, shift, scaledDigit>>

\* scaledDigit = _first_digit(value * 10^k)
ScaledDigitCall ==
    /\ pc = "returned"
    /\ \E k \in (-MaxShift)..MaxShift :
          /\ shift' = k
          /\ scaledDigit' = _first_digit(Scale(value, k))
    /\ pc' = "scaled"
    /\ UNCHANGED <<entry, err, extVars, values, anaVars, written, value, digit>>

NextDigit == FirstDigitCall \/ ScaledDigitCall

SpecDigit == InitDigit /\ [][NextDigit]_vars

\* the rounding to twelve significant digits carries into the first digit: the
\* second to twelfth digits are nines and the thirteenth is at least 5 (a tie goes
\* to the even neighbour, which is the one above a final 9)
CarriesIntoFirstDigit(v) ==
    /\ Len(v.digs) > Precision
    /\ \A i \in 2..Precision : v.digs[i] = 9
    /\ v.digs[Precision + 1] >= 5

\* the first non-zero digit of |v| rounded to twelve significant digits
LeadingDigitRounded(v) ==
    IF CarriesIntoFirstDigit(v)
    THEN (IF v.digs[1] = 9 THEN 1 ELSE v.digs[1] + 1)
    ELSE v.digs[1]

\* C10 as stated: _first_digit(0) is None, and for every non-zero value the result
\* is the first non-zero digit of the decimal representation of |v|, a digit of 1..9
C10_AsStated ==
    pc \in {"returned", "scaled"} =>
        /\ value.kind = "zero" => digit = NoDigit
        /\ value.kind = "num" => digit = value.digs[1] /\ digit \in 1..9

\* C10 amended: _first_digit(0) is None; for every finite non-zero value the result is
\* the first non-zero digit of |v| rounded to twelve significant digits, a digit of
\* 1..9, and it is the same for v * 10^k (the product taken exactly); inf and nan
\* have no digit
C10_LeadingDigit ==
    /\ pc \in {"returned", "scaled"} =>
        /\ value.kind = "zero" => digit = NoDigit
        /\ value.kind \in {"inf", "nan"} => digit = NoDigit
        /\ value.kind = "num" => digit = LeadingDigitRounded(value) /\ digit \in 1..9
    /\ pc = "scaled" => scaledDigit = digit

\* a value whose rendering is rounded up to a power of ten has been classified,
\* and so has its scaled value
C10_Witness ==
    /\ pc = "scaled"
    /\ value.kind = "num"
    /\ CarriesIntoFirstDigit(value)
    /\ value.neg
    /\ shift # 0
    /\ digit = 1
    /\ scaledDigit = 1

-----------------------------------------------------------------------------
(* A direct call of analyze_first_digits. *)

\* 123, 234, -20, 0.000123, 0 and inf
AnalyzeValues ==
    {Num(FALSE, <<1, 2, 3>>, 2), Num(FALSE, <<2, 3, 4>>, 2), Num(TRUE, <<2>>, 1),
     Num(FALSE, <<1, 2, 3>>, -4), Zero, Inf}

InitAnalyze ==
    /\ entry = "analyze_first_digits"
    /\ pc = "analyze"
    /\ err = NoErr
    /\ container = "none"
    /\ strings = <<>>
    /\ sheet = <<>>
    /\ headers = <<>>
    /\ column_for_abs = "None"
    /\ column_for_amount = "None"
    /\ rowIdx = 0
    /\ values \in SeqsUpTo(AnalyzeValues, MaxLen)
    /\ idx = 0
    /\ counts = EmptyCounts
    /\ total = 0
    /\ result = NoResult
    /\ written = {}
    /\ value = Zero
    /\ digit = NoDigit
    /\ shift = 0
    /\ scaledDigit = NoDigit

NextAnalyze == AnalyzeStep \/ AnalyzeFinish

SpecAnalyze == InitAnalyze /\ [][NextAnalyze]_vars

\* the permutations of 1..n
Perms(n) == {f \in [1..n -> 1..n] : \A i, j \in 1..n : i # j => f[i] # f[j]}

\* the sequence vs rearranged by the permutation f
Permuted(vs, f) == [i \in 1..Len(vs) |-> vs[f[i]]]

\* C6: the result returned for a sequence is the result of analyze_first_digits for
\* every permutation of it: counts, total, observed_pct, mad and chi_square agree
C6_OrderIndependent ==
    pc = "analyzed" =>
        \A f \in Perms(Len(values)) : Analyze(Permuted(values, f)) = result

\* a sequence of three values with different leading digits, and one without a
\* digit, has been analyzed
C6_Witness ==
    /\ pc = "analyzed"
    /\ Len(values) = 3
    /\ result.total = 2
    /\ result.counts[1] = 1
    /\ result.counts[2] = 1

\* C7: on the empty sequence analyze_first_digits does not fail, can return, and returns total 0,
\* every count 0, every observed fraction 0 and chi-square 0, having divided nowhere
C7_EmptyInput ==
    values = <<>> =>
        /\ pc # "failed"
        /\ ~DividesByZero(total)
        /\ pc = "analyze" => ENABLED AnalyzeFinish
        /\ pc = "analyzed" =>
              /\ result.total = 0
              /\ \A d \in Digits : result.counts[d] = 0 /\ result.observed_pct[d] = 0
              /\ result.chi_square = 0

\* the empty sequence has been analyzed; mad is then the mean of the expected fractions
C7_Witness ==
    /\ pc = "analyzed"
    /\ values = <<>>
    /\ result.total = 0
    /\ result.mad = 111

\* the values among the first n of vs whose leading digit is d
WithDigit(vs, n, d) == {j \in 1..n : _first_digit(vs[j]) = d}

\* C8: after every prefix of the input, and in the result, the counts sum to total,
\* total is at most the number of values processed, and counts[d] is the number of
\* processed values with leading digit d; a value without a digit counts nowhere
C8_Counting ==
    pc \in {"analyze", "analyzed"} =>
        /\ SumOver(counts, Digits) = total
        /\ total <= idx
        /\ idx <= Len(values)
        /\ \A d \in Digits : counts[d] >= 0 /\ counts[d] = Cardinality(WithDigit(values, idx, d))
        /\ total = idx - Cardinality(WithDigit(values, idx, NoDigit))
        /\ pc = "analyzed" => result.counts = counts /\ result.total = total /\ idx = Len(values)

\* a value without a leading digit has been processed after one with a digit, and
\* the loop has not ended
C8_Witness ==
    /\ pc = "analyze"
    /\ idx = 2
    /\ Len(values) = 3
    /\ total = 1
    /\ _first_digit(values[2]) = NoDigit

=============================================================================
